---- MODULE Spec2Model ----
(***************************************************************************)
(* A model of testdrive's action compiler (src/testdrive/src/action.rs):   *)
(* the function build, which turns a parsed command sequence into a list   *)
(* of position-tagged actions, and substitute_vars, the ${name}            *)
(* substitution it applies to every free-text field.                       *)
(*                                                                         *)
(* A text is a sequence of symbols.  A symbol is one of the three          *)
(* delimiter characters "$", "{", "}" or a delimiter-free piece of text    *)
(* (a single letter, or a longer piece such as "testdrive.seed"), so that  *)
(* the regular expression of substitute_vars is modelled symbol by symbol. *)
(***************************************************************************)
EXTENDS Integers, Sequences, FiniteSets, TLC

VARIABLES
    \* ---- build(cmds, state) ----
    kafka_url,      \* state.kafka_url
    cmds,           \* the input Vec<PosCommand>
    pc,             \* position of build: "start", "loop", "done"
    idx,            \* index in cmds of the command the for loop is at
    vars,           \* the HashMap vars
    sql_timeout,    \* the local sql_timeout, in milliseconds
    out,            \* the local out: Vec<PosAction>
    ret,            \* what build returned: NoReturn, Ok(out) or Err(e)
    \* ---- substitute_vars(msg, vars) called on its own ----
    msg,            \* the argument msg
    env,            \* the argument vars
    res             \* the result, NoResult before the call

VARIABLES
    \* ---- State::reset_materialized ----
    databases,      \* the databases of the server, in the order SHOW DATABASES lists them
    rm_pc,          \* position of reset_materialized: "show", "loop", "create", "done"
    rm_messages,    \* the messages simple_query returned
    rm_i,           \* index in rm_messages of the message the for loop is at
    rm_issued,      \* the statements sent to the server so far, in order
    rm_ret,         \* what reset_materialized returned
    \* ---- State::reset_kinesis ----
    kinesis_stream_names,   \* state.kinesis_stream_names, the stream registry
    kinesis_streams,        \* the streams that exist in the service
    rk_pc,          \* position of reset_kinesis: "idle", "loop", "done"
    rk_i,           \* index in the registry of the stream the for loop is at
    rk_requests,    \* the DeleteStreamInput requests sent by the current call
    rk_ret,         \* what the current call returned
    rk_calls,       \* the number of calls of reset_kinesis started
    \* ---- impl Action for T: SyncAction, and the task driving pgconn ----
    ad_todo,        \* the calls the caller still has to make, in order
    ad_pc,          \* position of the current call: "idle", "blocked", "finished"
    ad_call,        \* the current call: action, operation, session
    ad_sync,        \* the result of the synchronous call once it has returned
    sync_runs,      \* the synchronous calls run so far: action, operation, session
    ad_results,     \* the results the asynchronous calls completed with, in order
    pgconn,         \* the task driving the SQL connection: "none", "running", "failed", "closed"
    pgconn_tick,    \* the steps the task has taken, modulo TickMod
    \* ---- create_state ----
    config,         \* the Config handed to create_state: which options are present
    cs_pc,          \* the step create_state is at
    cs_steps,       \* the steps performed so far, in order
    kafka_config,   \* the rdkafka ClientConfig being built
    cs_ret,         \* what create_state returned
    state_alive,    \* the State returned is not dropped yet
    cleanup,        \* what the cleanup future completed with, NoReturn before
    reported        \* the errors of the connection task reported to the caller so far

buildvars == <<kafka_url, cmds, pc, idx, vars, sql_timeout, out, ret, msg, env, res>>
rmvars == <<databases, rm_pc, rm_messages, rm_i, rm_issued, rm_ret>>
rkvars == <<kinesis_stream_names, kinesis_streams, rk_pc, rk_i, rk_requests, rk_ret, rk_calls>>
advars == <<ad_todo, ad_pc, ad_call, ad_sync, sync_runs, ad_results>>
connvars == <<pgconn, pgconn_tick>>
csvars == <<config, cs_pc, cs_steps, kafka_config, cs_ret, state_alive, cleanup, reported>>
sessionvars == <<rmvars, rkvars, advars, connvars, csvars>>
allvars == <<buildvars, sessionvars>>

(***************************************************************************)
(* Bounds of the model.                                                    *)
(***************************************************************************)
MaxCmds == 3        \* longest command sequence handed to build
MaxPieces == 3      \* longest text, in pieces, handed to substitute_vars
FirstPos == 3       \* source position of the first command
PosStride == 7      \* distance between the positions of two commands

(***************************************************************************)
(* Texts.                                                                  *)
(***************************************************************************)
Ref(name) == <<"$", "{">> \o name \o <<"}">>

RECURSIVE Flatten(_)
Flatten(ss) == IF ss = <<>> THEN <<>> ELSE Head(ss) \o Flatten(Tail(ss))

SeqsUpTo(S, n) == UNION {[1..k -> S] : k \in 0..n}

Ok(v) == [ok |-> TRUE, val |-> v]
Err(e) == [ok |-> FALSE, err |-> e]

(***************************************************************************)
(* The regular expression \$\{([^}]+)\} of substitute_vars.                *)
(***************************************************************************)
\* The index of the first "}" of text at or after p, 0 when there is none.
RECURSIVE FirstClose(_, _)
FirstClose(text, p) ==
    IF p > Len(text) THEN 0
    ELSE IF text[p] = "}" THEN p
    ELSE FirstClose(text, p + 1)

\* The end of the match of RE that starts at p, 0 when RE does not match
\* there: "$", "{", one or more symbols other than "}", then "}".
MatchEnd(text, p) ==
    IF p + 3 <= Len(text) /\ text[p] = "$" /\ text[p + 1] = "{" /\ text[p + 2] # "}"
    THEN FirstClose(text, p + 3)
    ELSE 0

\* Regex::captures_iter: the successive non-overlapping leftmost matches of
\* RE in text from p on, each with its capture group 1.
RECURSIVE CapturesIter(_, _)
CapturesIter(text, p) ==
    IF p > Len(text) THEN <<>>
    ELSE LET e == MatchEnd(text, p) IN
         IF e = 0 THEN CapturesIter(text, p + 1)
         ELSE <<[start |-> p, end |-> e, name |-> SubSeq(text, p + 2, e - 1)]>>
              \o CapturesIter(text, e + 1)

(***************************************************************************)
(* substitute_vars                                                         *)
(***************************************************************************)
VarMissing == <<"#VAR-MISSING#">>
UnknownVariable(name) == <<"unknown variable: ">> \o name

\* The mutant: a missing variable is reported only when none was before.
ReplacerMutFirst(acc, name, vs) ==
    IF name \in DOMAIN vs
    THEN [acc EXCEPT !.rep = vs[name]]
    ELSE [rep |-> VarMissing,
          err |-> IF acc.err = <<>> THEN <<UnknownVariable(name)>> ELSE acc.err]

\* The mutant: a variable that is found is left as it was written.
ReplacerMutKeep(acc, name, vs) ==
    IF name \in DOMAIN vs
    THEN [acc EXCEPT !.rep = Ref(name)]
    ELSE [rep |-> VarMissing, err |-> <<UnknownVariable(name)>>]

\* The closure handed to replace_all, called once per match: the
\* replacement text, and the captured variable err (<<>> is None,
\* <<e>> is Some(e)).
Replacer(acc, name, vs) ==
    IF name \in DOMAIN vs
    THEN [acc EXCEPT !.rep = vs[name]]
    ELSE [rep |-> VarMissing, err |-> <<UnknownVariable(name)>>]

\* Regex::replace_all: the text between the matches is copied, each match
\* is replaced by what the closure returns for it.
RECURSIVE ReplaceAll(_, _, _, _, _)
ReplaceAll(text, caps, last, acc, vs) ==
    IF caps = <<>>
    THEN [text |-> acc.text \o SubSeq(text, last, Len(text)), err |-> acc.err]
    ELSE LET c == Head(caps)
             r == Replacer([rep |-> <<>>, err |-> acc.err], c.name, vs)
         IN  ReplaceAll(text, Tail(caps), c.end + 1,
                        [text |-> acc.text \o SubSeq(text, last, c.start - 1) \o r.rep,
                         err |-> r.err],
                        vs)

substitute_vars(m, vs) ==
    LET r == ReplaceAll(m, CapturesIter(m, 1), 1, [text |-> <<>>, err |-> <<>>], vs)
    IN  IF r.err # <<>> THEN Err(r.err[1]) ELSE Ok(r.text)

(***************************************************************************)
(* substitute_vars on its own: every text of at most MaxPieces pieces,     *)
(* every environment over the names a and b.                               *)
(***************************************************************************)
NoResult == [ok |-> FALSE, err |-> <<"not called">>]

Pieces == {Ref(<<"a">>), Ref(<<"b">>), <<"$">>, <<"{">>, <<"}">>, <<"a">>}
Texts == {Flatten(ps) : ps \in SeqsUpTo(Pieces, MaxPieces)}
EnvNames == {<<"a">>, <<"b">>}
EnvValues == {<<>>, <<"a">>, <<"}">>, <<"$">>, Ref(<<"b">>)}
Envs == UNION {[D -> EnvValues] : D \in SUBSET EnvNames}

(***************************************************************************)
(* The session (State) that build reads, and the errors it returns.        *)
(***************************************************************************)
DEFAULT_SQL_TIMEOUT == 12700

GeneralError(ctx) == [type |-> "General", ctx |-> ctx]
UsageError(details) == [type |-> "Usage", details |-> details, requested |-> FALSE]
InputError(m, pos) == [type |-> "Input", msg |-> m, pos |-> pos]

\* The broker URLs of the sessions considered: one with a port, the
\* Kerberos form without a port, one that is no URL, one without a host.
KafkaUrls ==
    { <<"plaintext", "://", "localhost", ":", "9092">>,
      <<"SASL_PLAINTEXT", "://", "kafka">>,
      <<"localhost">>,
      <<"file", "://", "/tmp">> }

\* str::replace("SASL_PLAINTEXT", "SASL")
SmoothUrl(u) == [i \in 1..Len(u) |-> IF u[i] = "SASL_PLAINTEXT" THEN "SASL" ELSE u[i]]

\* Url::parse, host_str and port on these URLs: a scheme is made of
\* letters, digits, "+", "-" and ".", and must be followed by "://".
UrlSchemes == {"plaintext", "SASL", "file"}
NoPort == "none"
NoHost == "none"
\* The mutant: every broker URL is taken as that of localhost.
UrlParseMutLenient(u) == Ok([host |-> "localhost", port |-> NoPort])
UrlParse(u) ==
    IF Len(u) >= 2 /\ u[1] \in UrlSchemes /\ u[2] = "://"
    THEN Ok([host |-> IF Len(u) >= 3 /\ u[3] \notin {"", "/tmp"} THEN u[3] ELSE NoHost,
             port |-> IF Len(u) >= 5 /\ u[4] = ":" THEN u[5] ELSE NoPort])
    ELSE Err(<<"relative URL without a base">>)

\* kafka_addr: the host, followed by ":" and the port when there is one.
KafkaAddr(url) ==
    IF url.port # NoPort THEN <<url.host, ":", url.port>> ELSE <<url.host>>

\* to_socket_addrs on "host:port", then the first address: an address
\* without a port does not resolve.
ResolveFailure == <<"#RESOLUTION-FAILURE#">>
Resolve(addr) ==
    IF Len(addr) = 3 /\ addr[1] = "localhost" THEN <<"127.0.0.1", ":", addr[3]>>
    ELSE ResolveFailure

\* The values of the session the reserved variables are derived from.
StateSeed == <<"4218">>
StateTempDir == <<"/tmp/.tmpXa">>
StateSchemaRegistryUrl == <<"http://localhost:8081/">>
StateAwsRegion == <<"us-east-1">>
StateAwsAccount == <<"000000000000">>
StateAwsAccessKeyId == <<"dummy-access-key-id">>
StateAwsSecretAccessKey == <<"dummy-secret-access-key">>
StateAwsToken == <<>>
StateAwsEndpoint == <<>>
ProtobufDescriptors == <<"\\x0a\\x8b">>

\* The names of the reserved variables.
KafkaAddrVar == <<"testdrive.kafka-addr">>
KafkaAddrResolvedVar == <<"testdrive.kafka-addr-resolved">>
SeedVar == <<"testdrive.seed">>
AwsTokenVar == <<"testdrive.aws-token">>

\* The thirteen vars.insert calls at the start of build.
SeedVars(kafka_addr) ==
    (KafkaAddrVar :> kafka_addr)
    @@ (KafkaAddrResolvedVar :> Resolve(kafka_addr))
    @@ (<<"testdrive.schema-registry-url">> :> StateSchemaRegistryUrl)
    @@ (SeedVar :> StateSeed)
    @@ (<<"testdrive.temp-dir">> :> StateTempDir)
    @@ (<<"testdrive.protobuf-descriptors">> :> ProtobufDescriptors)
    @@ (<<"testdrive.protobuf-descriptors-file">> :> StateTempDir \o <<"/protobuf-descriptors">>)
    @@ (<<"testdrive.aws-region">> :> StateAwsRegion)
    @@ (<<"testdrive.aws-account">> :> StateAwsAccount)
    @@ (<<"testdrive.aws-access-key-id">> :> StateAwsAccessKeyId)
    @@ (<<"testdrive.aws-secret-access-key">> :> StateAwsSecretAccessKey)
    @@ (AwsTokenVar :> StateAwsToken)
    @@ (<<"testdrive.aws-endpoint">> :> StateAwsEndpoint)

ReservedNames == DOMAIN SeedVars(<<"localhost">>)

(***************************************************************************)
(* Commands (crate::parser).                                               *)
(***************************************************************************)
EmptyMap == [k \in {} |-> <<>>]

Builtin(name, args, input) ==
    [type |-> "Builtin", name |-> name, args |-> args, input |-> input]
Full(rows) == [type |-> "Full", expected_rows |-> rows]
Hashed == [type |-> "Hashed"]
Sql(query, expected) == [type |-> "Sql", query |-> query, expected_result |-> expected]
FailSql(query, error) == [type |-> "FailSql", query |-> query, expected_error |-> error]

\* The builtin names the dispatch in build hands to a builder.
BuilderNames ==
    { "avro-ocf-write", "avro-ocf-append", "avro-ocf-verify", "file-append",
      "file-delete", "kafka-add-partitions", "kafka-create-topic", "kafka-ingest",
      "kafka-verify", "kinesis-create-stream", "kinesis-update-shards",
      "kinesis-ingest", "kinesis-verify", "random-sleep" }
\* The builtin names build handles itself, without an action.
PseudoNames == {"set-sql-timeout", "set-execution-count", "set"}

(***************************************************************************)
(* The command sequences handed to build.                                  *)
(***************************************************************************)
A == <<"a">>
B == <<"b">>
Duration == <<"duration">>

CommandPool ==
    { Sql(Ref(A), Full(<< <<<<"x">>>> >>)),
      Sql(<<"q">>, Full(<< <<<<"1">>, Ref(B)>> >>)),
      Sql(<<"s">> \o Ref(SeedVar), Hashed),
      FailSql(<<"q">>, Ref(A)),
      Builtin("kafka-ingest", (<<"topic">> :> Ref(A)), << <<"l">>, Ref(B) >>),
      Builtin("bogus-command", EmptyMap, <<>>),
      Builtin("bogus-command", (<<"x">> :> Ref(B)), <<>>),
      Builtin("set-sql-timeout", (Duration :> <<"30s">>), <<>>),
      Builtin("set-sql-timeout", (Duration :> <<"DeFault">>), <<>>),
      Builtin("set-sql-timeout", (Duration :> <<"soon">>), <<>>),
      Builtin("set-sql-timeout", EmptyMap, <<>>),
      Builtin("set-execution-count", (<<"count">> :> <<"2">>), <<>>),
      Builtin("set", (A :> <<"1">>), <<>>),
      Builtin("set", (A :> <<"2">>) @@ (B :> Ref(A)), <<>>),
      Builtin("set", (SeedVar :> <<"0">>), <<>>) }

\* The parser numbers the commands by their place in the script: positions
\* grow strictly along the sequence.
PosOf(i) == FirstPos + (i - 1) * PosStride
PosCommand(i, c) == [pos |-> PosOf(i), command |-> c]
CommandSeqs ==
    {[i \in 1..Len(cs) |-> PosCommand(i, cs[i])] : cs \in SeqsUpTo(CommandPool, MaxCmds)}

(***************************************************************************)
(* The substitution build applies to the fields of a command.              *)
(***************************************************************************)
\* The mutant: the arguments of a command see each other's definitions.
SubstArgsMutSelf(args, vs) ==
    LET merged == [k \in DOMAIN vs \cup DOMAIN args |->
                      IF k \in DOMAIN args THEN args[k] ELSE vs[k]]
        failing == {k \in DOMAIN args : ~substitute_vars(args[k], merged).ok}
    IN  IF failing # {}
        THEN {Err(substitute_vars(args[k], merged).err) : k \in failing}
        ELSE {Ok([k \in DOMAIN args |-> substitute_vars(args[k], merged).val])}

\* for val in builtin.args.values_mut() { *val = subst(val)?; }  A HashMap
\* is visited in no particular order: when several values fail, the error
\* is that of any one of them.
SubstArgs(args, vs) ==
    LET failing == {k \in DOMAIN args : ~substitute_vars(args[k], vs).ok} IN
    IF failing # {}
    THEN {Err(substitute_vars(args[k], vs).err) : k \in failing}
    ELSE {Ok([k \in DOMAIN args |-> substitute_vars(args[k], vs).val])}

\* for line in &mut builtin.input { *line = subst(line)?; } and the same
\* loop over the columns of a row: in order, up to the first failure.
RECURSIVE SubstLines(_, _, _)
SubstLines(lines, vs, done) ==
    IF lines = <<>> THEN Ok(done)
    ELSE LET r == substitute_vars(Head(lines), vs) IN
         IF r.ok THEN SubstLines(Tail(lines), vs, Append(done, r.val)) ELSE r

RECURSIVE SubstRows(_, _, _)
SubstRows(rows, vs, done) ==
    IF rows = <<>> THEN Ok(done)
    ELSE LET r == SubstLines(Head(rows), vs, <<>>) IN
         IF r.ok THEN SubstRows(Tail(rows), vs, Append(done, r.val)) ELSE r

\* The mutant: the expected rows are handed on as written.
SubstExpectedMutSkip(expected, vs) == Ok(expected)

\* The rows are substituted only when the expected result is Full.
SubstExpected(expected, vs) ==
    IF expected.type = "Full"
    THEN LET r == SubstRows(expected.expected_rows, vs, <<>>) IN
         IF r.ok THEN Ok(Full(r.val)) ELSE r
    ELSE Ok(expected)

(***************************************************************************)
(* The pseudo-commands.                                                    *)
(***************************************************************************)
\* ArgMap::string: the value of a parameter, an error when it is absent.
ArgString(args, name) ==
    IF name \in DOMAIN args THEN Ok(args[name])
    ELSE Err(<<"missing ">> \o name \o <<" parameter">>)

\* str::to_lowercase on the texts considered.
LowerSym(c) == IF c \in {"DeFault", "DEFAULT", "Default"} THEN "default" ELSE c
ToLowercase(t) == [i \in 1..Len(t) |-> LowerSym(t[i])]

\* parse_duration::parse on the texts considered, in milliseconds.
ParseDuration(t) ==
    IF t = <<"30s">> THEN Ok(30000)
    ELSE IF t = <<"1m">> THEN Ok(60000)
    ELSE Err(<<"no value found">>)

\* The arm "set-sql-timeout": the new value of sql_timeout, or the error.
SetSqlTimeout(args) ==
    LET d == ArgString(args, Duration) IN
    IF ~d.ok THEN d
    ELSE IF ToLowercase(d.val) = <<"default">> THEN Ok(DEFAULT_SQL_TIMEOUT)
    ELSE ParseDuration(d.val)

\* The mutant: a name that is already defined keeps its value.
ExtendVarsMutKeep(vs, args) ==
    [k \in DOMAIN vs \cup DOMAIN args |-> IF k \in DOMAIN vs THEN vs[k] ELSE args[k]]

\* The mutant: a reserved name cannot be redefined.
ExtendVarsMutReserved(vs, args) ==
    [k \in DOMAIN vs \cup DOMAIN args |->
        IF k \in DOMAIN args /\ k \notin ReservedNames THEN args[k] ELSE vs[k]]

\* vars.extend(builtin.args)
ExtendVars(vs, args) ==
    [k \in DOMAIN vs \cup DOMAIN args |-> IF k \in DOMAIN args THEN args[k] ELSE vs[k]]

(***************************************************************************)
(* The builders of the backend modules: each either fails with a message   *)
(* or returns an action made of what it was handed.                        *)
(***************************************************************************)
BuilderError == <<"builder error">>
BuildBuiltin(builtin) == {Ok([type |-> builtin.name, cmd |-> builtin]), Err(BuilderError)}
BuildSql(sql, timeout) ==
    {Ok([type |-> "sql", cmd |-> sql, timeout |-> timeout]), Err(BuilderError)}
BuildFailSql(sql, timeout) ==
    {Ok([type |-> "fail-sql", cmd |-> sql, timeout |-> timeout]), Err(BuilderError)}

(***************************************************************************)
(* build                                                                   *)
(***************************************************************************)
NoReturn == [kind |-> "None"]
ReturnOk(actions) == [kind |-> "Ok", actions |-> actions]
ReturnErr(e) == [kind |-> "Err", err |-> e]

\* The mutant: the message does not say which command is unknown.
UnknownBuiltinMutAnon(name, pos) == InputError(<<"unknown built-in command">>, pos)

UnknownBuiltin(name, pos) == InputError(<<"unknown built-in command ", name>>, pos)

\* The values of the variables of an operation that is not running.
RmIdle ==
    /\ databases = <<>> /\ rm_pc = "idle" /\ rm_messages = <<>> /\ rm_i = 1
    /\ rm_issued = <<>> /\ rm_ret = NoReturn
RkIdle ==
    /\ kinesis_stream_names = <<>> /\ kinesis_streams = {} /\ rk_pc = "idle" /\ rk_i = 1
    /\ rk_requests = <<>> /\ rk_ret = NoReturn /\ rk_calls = 0
AdIdle ==
    /\ ad_todo = <<>> /\ ad_pc = "idle" /\ ad_call = NoReturn /\ ad_sync = NoReturn
    /\ sync_runs = <<>> /\ ad_results = <<>>
ConnIdle == pgconn = "none" /\ pgconn_tick = 0
CsIdle ==
    /\ config = EmptyMap /\ cs_pc = "idle" /\ cs_steps = <<>> /\ kafka_config = EmptyMap
    /\ cs_ret = NoReturn /\ state_alive = FALSE /\ cleanup = NoReturn /\ reported = <<>>
BuildIdle ==
    /\ kafka_url = <<>> /\ cmds = <<>> /\ pc = "idle" /\ idx = 1 /\ vars = EmptyMap
    /\ sql_timeout = DEFAULT_SQL_TIMEOUT /\ out = <<>> /\ ret = NoReturn
    /\ msg = <<>> /\ env = EmptyMap /\ res = NoResult

Init ==
    /\ RmIdle /\ RkIdle /\ AdIdle /\ ConnIdle /\ CsIdle
    /\ kafka_url \in KafkaUrls
    /\ cmds \in CommandSeqs
    /\ pc = "start"
    /\ idx = 1
    /\ vars = EmptyMap
    /\ sql_timeout = DEFAULT_SQL_TIMEOUT
    /\ out = <<>>
    /\ ret = NoReturn
    /\ msg = <<>>
    /\ env = EmptyMap
    /\ res = NoResult

\* The mutant: the actions built so far are returned.
FailMutPartial(e) ==
    /\ pc' = "done"
    /\ ret' = ReturnOk(out)
    /\ UNCHANGED <<idx, vars, sql_timeout, out>>

\* The mutant: a command that fails is passed over and the loop goes on.
FailMutSkip(e) ==
    /\ pc' = "loop"
    /\ idx' = idx + 1
    /\ UNCHANGED <<vars, sql_timeout, out, ret>>

\* return Err(e), by return or by the ? operator: out is dropped.
Fail(e) ==
    /\ pc' = "done"
    /\ ret' = ReturnErr(e)
    /\ UNCHANGED <<idx, vars, sql_timeout, out>>

\* The mutant: the action is put in front.
PushMutFront(pos, action) ==
    /\ out' = <<[pos |-> pos, action |-> action]>> \o out
    /\ idx' = idx + 1
    /\ UNCHANGED <<pc, ret, vars, sql_timeout>>

\* out.push(PosAction { pos: cmd.pos, action }), then the next command.
Push(pos, action) ==
    /\ out' = Append(out, [pos |-> pos, action |-> action])
    /\ idx' = idx + 1
    /\ UNCHANGED <<pc, ret, vars, sql_timeout>>

\* The mutant: the timeout that was set is forgotten.
ContinueMutTimeout(vs, timeout) ==
    /\ idx' = idx + 1
    /\ vars' = vs
    /\ UNCHANGED <<pc, ret, out, sql_timeout>>

\* The mutant: the pseudo-command leaves an action behind.
ContinueMutPush(vs, timeout) ==
    /\ idx' = idx + 1
    /\ vars' = vs
    /\ sql_timeout' = timeout
    /\ out' = Append(out, [pos |-> cmds[idx].pos, action |-> [type |-> "noop"]])
    /\ UNCHANGED <<pc, ret>>

\* continue, with the new values of the build context.
Continue(vs, timeout) ==
    /\ idx' = idx + 1
    /\ vars' = vs
    /\ sql_timeout' = timeout
    /\ UNCHANGED <<pc, ret, out>>

\* What precedes the loop: the broker URL is parsed, the reserved
\* variables are inserted, the protobuf descriptors file is written.
BuildStart ==
    /\ pc = "start"
    /\ LET parsed_url == UrlParse(SmoothUrl(kafka_url)) IN
       IF ~parsed_url.ok
       THEN Fail(GeneralError("reading Kafka broker URL"))
       ELSE IF parsed_url.val.host = NoHost
       THEN Fail(UsageError(<<"invalid Kafka URL ">> \o kafka_url \o <<"; need a hostname">>))
       ELSE LET kafka_addr == KafkaAddr(parsed_url.val) IN
            \E written \in BOOLEAN :
                  IF ~written
                  THEN Fail(GeneralError("writing protobuf descriptors file"))
                  ELSE /\ vars' = SeedVars(kafka_addr)
                       /\ pc' = "loop"
                       /\ UNCHANGED <<idx, sql_timeout, out, ret>>
    /\ UNCHANGED <<kafka_url, cmds, msg, env, res>>
    /\ UNCHANGED sessionvars

\* The arm Command::Builtin of one turn of the loop.
StepBuiltin ==
    /\ pc = "loop"
    /\ idx <= Len(cmds)
    /\ cmds[idx].command.type = "Builtin"
    /\ LET pos == cmds[idx].pos
           builtin == cmds[idx].command
       IN  \E a \in SubstArgs(builtin.args, vars) :
             IF ~a.ok THEN Fail(InputError(a.err, pos))
             ELSE LET lines == SubstLines(builtin.input, vars, <<>>) IN
                  IF ~lines.ok THEN Fail(InputError(lines.err, pos))
                  ELSE LET b == [builtin EXCEPT !.args = a.val, !.input = lines.val] IN
                       IF b.name \in BuilderNames
                       THEN \E r \in BuildBuiltin(b) :
                              IF r.ok THEN Push(pos, r.val)
                              ELSE Fail(InputError(r.err, pos))
                       ELSE IF b.name = "set-sql-timeout"
                       THEN LET t == SetSqlTimeout(b.args) IN
                            IF t.ok THEN Continue(vars, t.val)
                            ELSE Fail(InputError(t.err, pos))
                       ELSE IF b.name = "set-execution-count"
                       THEN Continue(vars, sql_timeout)
                       ELSE IF b.name = "set"
                       THEN Continue(ExtendVars(vars, b.args), sql_timeout)
                       ELSE Fail(UnknownBuiltin(b.name, pos))
    /\ UNCHANGED <<kafka_url, cmds, msg, env, res>>
    /\ UNCHANGED sessionvars

\* The arm Command::Sql.
StepSql ==
    /\ pc = "loop"
    /\ idx <= Len(cmds)
    /\ cmds[idx].command.type = "Sql"
    /\ LET pos == cmds[idx].pos
           sql == cmds[idx].command
           query == substitute_vars(sql.query, vars)
       IN  IF ~query.ok THEN Fail(InputError(query.err, pos))
           ELSE LET expected == SubstExpected(sql.expected_result, vars) IN
                IF ~expected.ok THEN Fail(InputError(expected.err, pos))
                ELSE \E r \in BuildSql(Sql(query.val, expected.val), sql_timeout) :
                       IF r.ok THEN Push(pos, r.val)
                       ELSE Fail(InputError(r.err, pos))
    /\ UNCHANGED <<kafka_url, cmds, msg, env, res>>
    /\ UNCHANGED sessionvars

\* The arm Command::FailSql.
StepFailSql ==
    /\ pc = "loop"
    /\ idx <= Len(cmds)
    /\ cmds[idx].command.type = "FailSql"
    /\ LET pos == cmds[idx].pos
           sql == cmds[idx].command
           query == substitute_vars(sql.query, vars)
       IN  IF ~query.ok THEN Fail(InputError(query.err, pos))
           ELSE LET error == substitute_vars(sql.expected_error, vars) IN
                IF ~error.ok THEN Fail(InputError(error.err, pos))
                ELSE \E r \in BuildFailSql(FailSql(query.val, error.val), sql_timeout) :
                       IF r.ok THEN Push(pos, r.val)
                       ELSE Fail(InputError(r.err, pos))
    /\ UNCHANGED <<kafka_url, cmds, msg, env, res>>
    /\ UNCHANGED sessionvars

\* The loop is over: Ok(out).
BuildReturn ==
    /\ pc = "loop"
    /\ idx > Len(cmds)
    /\ pc' = "done"
    /\ ret' = ReturnOk(out)
    /\ UNCHANGED <<kafka_url, cmds, idx, vars, sql_timeout, out, msg, env, res>>
    /\ UNCHANGED sessionvars

Next == BuildStart \/ StepBuiltin \/ StepSql \/ StepFailSql \/ BuildReturn

Spec == Init /\ [][Next]_allvars

(***************************************************************************)
(* substitute_vars called on its own.                                      *)
(***************************************************************************)
InitSubst ==
    /\ RmIdle /\ RkIdle /\ AdIdle /\ ConnIdle /\ CsIdle
    /\ msg \in Texts
    /\ env \in Envs
    /\ res = NoResult
    /\ kafka_url = <<>>
    /\ cmds = <<>>
    /\ pc = "subst"
    /\ idx = 1
    /\ vars = EmptyMap
    /\ sql_timeout = DEFAULT_SQL_TIMEOUT
    /\ out = <<>>
    /\ ret = NoReturn

Substitute ==
    /\ pc = "subst"
    /\ res = NoResult
    /\ res' = substitute_vars(msg, env)
    /\ pc' = "substituted"
    /\ UNCHANGED <<msg, env, kafka_url, cmds, idx, vars, sql_timeout, out, ret>>
    /\ UNCHANGED sessionvars

NextSubst == Substitute

SpecSubst == InitSubst /\ [][NextSubst]_allvars

(***************************************************************************)
(* What the claims are stated with.                                        *)
(***************************************************************************)
IsPseudo(c) == c.type = "Builtin" /\ c.name \in PseudoNames
IsSet(c) == c.type = "Builtin" /\ c.name = "set"
IsSetSqlTimeout(c) == c.type = "Builtin" /\ c.name = "set-sql-timeout"
IsUnknownBuiltin(c) == c.type = "Builtin" /\ c.name \notin BuilderNames \cup PseudoNames

\* The command an action of the output comes from, by its position.
IndexOfPos(p) == CHOOSE i \in 1..Len(cmds) : cmds[i].pos = p
CommandOf(a) == cmds[IndexOfPos(a.pos)].command

Positions(s) == [k \in 1..Len(s) |-> s[k].pos]
ProducesAction(pc_) == ~IsPseudo(pc_.command)
Maximum(S) == CHOOSE m \in S : \A x \in S : x <= m

\* The loop has been entered: the reserved variables are in vars.
InLoop == pc = "loop" \/ (pc = "done" /\ (ret.kind = "Ok" \/ ret.err.type = "Input"))
\* The loop has gone past command i, which therefore compiled.
Compiled(i) == InLoop /\ i < idx
\* build failed at command i.
FailedAt(i) == pc = "done" /\ ret.kind = "Err" /\ ret.err.type = "Input" /\ idx = i

\* The values of the session behind the reserved variables.
Seeded == SeedVars(KafkaAddr(UrlParse(SmoothUrl(kafka_url)).val))

\* The environment as the script defines it for command i: a name has the
\* value the most recent set command before i gives it, substituted in the
\* environment of that set command; a reserved name no set command before
\* i defines has the value of the session.
SettersBefore(i, n) ==
    {j \in 1..(i - 1) : IsSet(cmds[j].command) /\ n \in DOMAIN cmds[j].command.args}
NamesBefore(i) ==
    ReservedNames \cup UNION {DOMAIN cmds[j].command.args :
                                j \in {k \in 1..(i - 1) : IsSet(cmds[k].command)}}
RECURSIVE ValueBefore(_, _), EnvBefore(_)
ValueBefore(i, n) ==
    IF SettersBefore(i, n) = {} THEN Seeded[n]
    ELSE LET j == Maximum(SettersBefore(i, n)) IN
         substitute_vars(cmds[j].command.args[n], EnvBefore(j)).val
EnvBefore(i) == [n \in NamesBefore(i) |-> ValueBefore(i, n)]

(***************************************************************************)
(* C1: when build succeeds, the positions of the returned actions, in      *)
(* output order, are the positions of the commands that are no             *)
(* pseudo-command, in input order: nothing reordered, duplicated, dropped. *)
(***************************************************************************)
C1_OrderPreserved ==
    (pc = "done" /\ ret.kind = "Ok") =>
        Positions(ret.actions) = Positions(SelectSeq(cmds, ProducesAction))

C1_Witness ==
    /\ pc = "done" /\ ret.kind = "Ok"
    /\ Len(ret.actions) >= 2
    /\ Len(cmds) > Len(ret.actions)

(***************************************************************************)
(* C2: build is all-or-nothing: when a command of the sequence cannot      *)
(* compile (unknown builtin, set-sql-timeout without a duration or with    *)
(* one that is no duration, a variable no command defines), build returns  *)
(* an error, and the error carries no action, not even those built for     *)
(* the commands before; when it returns actions, every command compiled.   *)
(***************************************************************************)
FieldsOf(c) ==
    IF c.type = "Builtin"
        THEN {c.args[k] : k \in DOMAIN c.args} \cup {c.input[k] : k \in 1..Len(c.input)}
    ELSE IF c.type = "Sql"
        THEN {c.query} \cup
             (IF c.expected_result.type = "Full"
              THEN UNION {{row[k] : k \in 1..Len(row)} :
                            row \in {c.expected_result.expected_rows[r] :
                                       r \in 1..Len(c.expected_result.expected_rows)}}
              ELSE {})
    ELSE {c.query, c.expected_error}
NamesIn(t) == {CapturesIter(t, 1)[k].name : k \in 1..Len(CapturesIter(t, 1))}
References(c) == UNION {NamesIn(t) : t \in FieldsOf(c)}

CannotCompile(i) ==
    LET c == cmds[i].command IN
    \/ IsUnknownBuiltin(c)
    \/ IsSetSqlTimeout(c) /\ Duration \notin DOMAIN c.args
    \/ IsSetSqlTimeout(c) /\ Duration \in DOMAIN c.args /\ c.args[Duration] = <<"soon">>
    \/ References(c) \ NamesBefore(Len(cmds) + 1) # {}

C2_AllOrNothing ==
    pc = "done" =>
        /\ (\E i \in 1..Len(cmds) : CannotCompile(i)) => ret.kind = "Err"
        /\ ret.kind = "Err" => "actions" \notin DOMAIN ret
        /\ ret.kind = "Ok" => idx = Len(cmds) + 1 /\ ret.actions = out

C2_Witness ==
    /\ pc = "done" /\ ret.kind = "Err"
    /\ Len(out) >= 2
    /\ CannotCompile(idx)

(***************************************************************************)
(* C3: a Sql or FailSql action has the timeout of the nearest              *)
(* set-sql-timeout command before it, the default timeout when there is    *)
(* none or when that command says "default" in any letter case; a          *)
(* set-sql-timeout command that says "default" compiles; an action keeps   *)
(* its timeout when a later set-sql-timeout command is compiled.           *)
(***************************************************************************)
DefaultSpellings == {<<"default">>, <<"DEFAULT">>, <<"Default">>, <<"DeFault">>}
TimeoutSettersBefore(i) == {j \in 1..(i - 1) : IsSetSqlTimeout(cmds[j].command)}
DurationOf(j) == substitute_vars(cmds[j].command.args[Duration], EnvBefore(j)).val
TimeoutBefore(i) ==
    IF TimeoutSettersBefore(i) = {} THEN DEFAULT_SQL_TIMEOUT
    ELSE LET j == Maximum(TimeoutSettersBefore(i)) IN
         IF DurationOf(j) \in DefaultSpellings THEN DEFAULT_SQL_TIMEOUT
         ELSE ParseDuration(DurationOf(j)).val

C3_TimeoutOfNearestSetting ==
    /\ \A k \in 1..Len(out) :
         out[k].action.type \in {"sql", "fail-sql"} =>
             out[k].action.timeout = TimeoutBefore(IndexOfPos(out[k].pos))
    /\ \A i \in 1..Len(cmds) :
         (/\ FailedAt(i)
          /\ IsSetSqlTimeout(cmds[i].command)
          /\ Duration \in DOMAIN cmds[i].command.args)
             => cmds[i].command.args[Duration] \notin DefaultSpellings

C3_Witness ==
    /\ InLoop /\ idx = 4 /\ Len(out) = 1
    /\ IsSetSqlTimeout(cmds[1].command)
    /\ IsSetSqlTimeout(cmds[3].command)
    /\ out[1].action.type = "sql"
    /\ out[1].action.timeout = 30000
    /\ sql_timeout = DEFAULT_SQL_TIMEOUT

(***************************************************************************)
(* C4: set-sql-timeout, set-execution-count and set add no action: no      *)
(* action of the output comes from one of them, a successful build         *)
(* returns as many actions as there are other commands, and compiling      *)
(* set-execution-count changes neither the variables nor the timeout.      *)
(***************************************************************************)
AtExecutionCount ==
    /\ pc = "loop" /\ idx <= Len(cmds)
    /\ cmds[idx].command.type = "Builtin"
    /\ cmds[idx].command.name = "set-execution-count"

C4_NoActionFromPseudo ==
    /\ \A k \in 1..Len(out) : ~IsPseudo(CommandOf(out[k]))
    /\ (pc = "done" /\ ret.kind = "Ok") =>
           Len(ret.actions) = Cardinality({i \in 1..Len(cmds) : ~IsPseudo(cmds[i].command)})

C4_ExecutionCountIsNoOp ==
    AtExecutionCount => (vars' = vars /\ sql_timeout' = sql_timeout /\ out' = out)

C4_PseudoCommands == []C4_NoActionFromPseudo /\ [][C4_ExecutionCountIsNoOp]_allvars

C4_Witness ==
    /\ pc = "done" /\ ret.kind = "Ok"
    /\ Len(ret.actions) = 1
    /\ Len(cmds) = 3
    /\ \E i \in 1..Len(cmds) : cmds[i].command = Builtin("set-execution-count", (<<"count">> :> <<"2">>), <<>>)
    /\ \E i \in 1..Len(cmds) : IsSet(cmds[i].command)

(***************************************************************************)
(* C5: the variables in force at a command are those the set commands      *)
(* before it define, each with the value of the most recent one (last      *)
(* write wins); a set command defines nothing for the commands before it.  *)
(* The texts of the actions are substituted in that environment.           *)
(***************************************************************************)
C5_SetVisibleToLaterCommands ==
    /\ InLoop => vars = EnvBefore(idx)
    /\ \A k \in 1..Len(out) :
         out[k].action.type \in {"sql", "fail-sql"} =>
             LET i == IndexOfPos(out[k].pos) IN
             out[k].action.cmd.query = substitute_vars(cmds[i].command.query, EnvBefore(i)).val
    /\ \A i \in 1..Len(cmds) :
         (Compiled(i) /\ ~IsSet(cmds[i].command)) =>
             References(cmds[i].command) \subseteq NamesBefore(i)

C5_Witness ==
    /\ InLoop /\ Len(out) = 1 /\ Len(cmds) = 3
    /\ cmds[1].command = Builtin("set", (A :> <<"1">>), <<>>)
    /\ IsSet(cmds[2].command) /\ A \in DOMAIN cmds[2].command.args
    /\ cmds[3].command.type = "Sql"
    /\ cmds[3].command.query = Ref(A)
    /\ out[1].action.cmd.query = <<"2">>

(***************************************************************************)
(* C6, as claimed: when the loop reaches a builtin whose name is not in    *)
(* the dispatch table, build fails with the input error that names it, at  *)
(* its position, whatever its arguments and input lines contain.           *)
(***************************************************************************)
Reached(i) == InLoop /\ (i < idx \/ (pc = "done" /\ i = idx))

C6_Original ==
    \A i \in 1..Len(cmds) :
        (Reached(i) /\ IsUnknownBuiltin(cmds[i].command)) =>
            /\ FailedAt(i)
            /\ ret.err = InputError(<<"unknown built-in command ", cmds[i].command.name>>,
                                    cmds[i].pos)

(***************************************************************************)
(* C6, amended: when the loop reaches a builtin whose name is not in the   *)
(* dispatch table, build fails with an input error at its position; the    *)
(* error names the unknown builtin when the argument values and input      *)
(* lines reference only variables that are defined, and is the             *)
(* missing-variable error of one of them otherwise.                        *)
(***************************************************************************)
C6_UnknownBuiltin ==
    \A i \in 1..Len(cmds) :
        (Reached(i) /\ IsUnknownBuiltin(cmds[i].command)) =>
            /\ FailedAt(i)
            /\ ret.err.pos = cmds[i].pos
            /\ IF References(cmds[i].command) \subseteq DOMAIN vars
               THEN ret.err.msg = <<"unknown built-in command ", cmds[i].command.name>>
               ELSE \E n \in References(cmds[i].command) \ DOMAIN vars :
                       ret.err.msg = UnknownVariable(n)

C6_Witness ==
    /\ FailedAt(3)
    /\ Len(out) = 0
    /\ IsUnknownBuiltin(cmds[3].command)
    /\ References(cmds[3].command) # {}
    /\ ret.err = InputError(<<"unknown built-in command ", "bogus-command">>, cmds[3].pos)

(***************************************************************************)
(* C7: every free-text field of a command is substituted before a builder  *)
(* sees the command (argument values and input lines; query and expected   *)
(* rows; query and expected error): the action pushed is made of the       *)
(* substituted fields.  When one of these fields references a variable     *)
(* that is not in the environment in force, the turn of the loop pushes    *)
(* no action and build fails with an input error at the command's          *)
(* position, the missing-variable error of one of the missing names.       *)
(***************************************************************************)
SubstitutedCommand(c, e) ==
    LET Sub(t) == substitute_vars(t, e).val IN
    IF c.type = "Builtin"
        THEN [c EXCEPT !.args = [k \in DOMAIN c.args |-> Sub(c.args[k])],
                       !.input = [k \in 1..Len(c.input) |-> Sub(c.input[k])]]
    ELSE IF c.type = "Sql"
        THEN Sql(Sub(c.query),
                 IF c.expected_result.type = "Full"
                 THEN LET rows == c.expected_result.expected_rows IN
                      Full([r \in 1..Len(rows) |-> [k \in 1..Len(rows[r]) |-> Sub(rows[r][k])]])
                 ELSE c.expected_result)
    ELSE FailSql(Sub(c.query), Sub(c.expected_error))

C7_Step ==
    (pc = "loop" /\ idx <= Len(cmds)) =>
        LET c == cmds[idx].command IN
        IF References(c) \subseteq DOMAIN vars
        THEN out' # out =>
                 /\ Len(out') = Len(out) + 1
                 /\ out'[Len(out')].action.cmd = SubstitutedCommand(c, vars)
        ELSE /\ out' = out
             /\ pc' = "done"
             /\ ret'.kind = "Err"
             /\ ret'.err.type = "Input"
             /\ ret'.err.pos = cmds[idx].pos
             /\ \E n \in References(c) \ DOMAIN vars : ret'.err.msg = UnknownVariable(n)

C7_SubstitutionCoversEveryField == [][C7_Step]_allvars

C7_Witness ==
    /\ FailedAt(2)
    /\ Len(out) = 1
    /\ cmds[2].command.type = "Sql"
    /\ NamesIn(cmds[2].command.query) = {}
    /\ B \in References(cmds[2].command)
    /\ ret.err = InputError(UnknownVariable(B), cmds[2].pos)

(***************************************************************************)
(* C8, as claimed: when the environment contains every name the text       *)
(* references, substitute_vars succeeds and its result contains no         *)
(* ${...} occurrence.                                                      *)
(***************************************************************************)
Substituted == pc = "substituted"
HasOccurrence(t) == CapturesIter(t, 1) # <<>>
Contains(t, c) == \E k \in 1..Len(t) : t[k] = c

C8_Original ==
    (Substituted /\ NamesIn(msg) \subseteq DOMAIN env) =>
        res.ok /\ ~HasOccurrence(res.val)

(***************************************************************************)
(* C8, amended: when the environment contains every name the text          *)
(* references, substitute_vars succeeds; its result contains no ${...}     *)
(* occurrence when every value substituted is non-empty and contains       *)
(* neither "$" nor "{" (the values are not substituted again).             *)
(***************************************************************************)
PlainValue(v) == v # <<>> /\ ~Contains(v, "$") /\ ~Contains(v, "{")

C8_SubstitutionComplete ==
    (Substituted /\ NamesIn(msg) \subseteq DOMAIN env) =>
        /\ res.ok
        /\ (\A n \in NamesIn(msg) : PlainValue(env[n])) => ~HasOccurrence(res.val)

C8_Witness ==
    /\ Substituted
    /\ NamesIn(msg) = {A, B}
    /\ DOMAIN env = {A, B}
    /\ env[A] = <<"}">> /\ env[B] = <<"a">>
    /\ res.ok
    /\ Contains(res.val, "$")

(***************************************************************************)
(* C9: when the text references a name the environment lacks,              *)
(* substitute_vars fails, returns no text, and its error names the missing *)
(* name of the last ${name} of the text that is not resolved.              *)
(***************************************************************************)
MissingNames(t, e) ==
    SelectSeq([k \in 1..Len(CapturesIter(t, 1)) |-> CapturesIter(t, 1)[k].name],
              LAMBDA n : n \notin DOMAIN e)

C9_LastMissingNameReported ==
    (Substituted /\ MissingNames(msg, env) # <<>>) =>
        /\ ~res.ok
        /\ "val" \notin DOMAIN res
        /\ res.err = UnknownVariable(MissingNames(msg, env)[Len(MissingNames(msg, env))])

C9_Witness ==
    /\ Substituted
    /\ Len(MissingNames(msg, env)) >= 2
    /\ MissingNames(msg, env)[1] = A
    /\ res = Err(UnknownVariable(B))

(***************************************************************************)
(* C10, as claimed: whatever set commands precede a command, the           *)
(* substitution of a reserved name yields the value of the session.        *)
(***************************************************************************)
C10_Original ==
    InLoop => \A n \in ReservedNames : substitute_vars(Ref(n), vars) = Ok(Seeded[n])

(***************************************************************************)
(* C10, amended: the substitution of a reserved name yields the value of   *)
(* the session as long as no set command before the command defines that   *)
(* name; once one does, it yields the value of the most recent such set.   *)
(***************************************************************************)
C10_ReservedUnlessSet ==
    InLoop =>
        \A n \in ReservedNames :
            substitute_vars(Ref(n), vars) =
                Ok(IF SettersBefore(idx, n) = {} THEN Seeded[n] ELSE ValueBefore(idx, n))

C10_Witness ==
    /\ InLoop
    /\ SettersBefore(idx, SeedVar) # {}
    /\ Len(out) = 2
    /\ out[1].action.type = "sql" /\ out[2].action.type = "sql"
    /\ out[1].action.cmd.query = <<"s">> \o StateSeed
    /\ out[2].action.cmd.query = <<"s", "0">>

(***************************************************************************)
(* State::reset_materialized                                               *)
(***************************************************************************)
MaxDatabases == 3       \* most databases the server holds

DefaultDatabase == "materialize"
DatabaseNames == {"a", "b", DefaultDatabase}

DistinctSeqs(S, n) ==
    {q \in SeqsUpTo(S, n) : \A i, j \in 1..Len(q) : i # j => q[i] # q[j]}
Without(q, x) == SelectSeq(q, LAMBDA y : y # x)

\* What simple_query("SHOW DATABASES") returns: one row per database, then
\* the message that the command is complete.
RowMessage(name) == [type |-> "Row", name |-> name]
CommandComplete == [type |-> "CommandComplete"]
ShowDatabasesResult(dbs) ==
    [k \in 1..Len(dbs) |-> RowMessage(dbs[k])] \o <<CommandComplete>>

ShowDatabases == <<"SHOW DATABASES">>
DropDatabase(name) == <<"DROP DATABASE ", name>>
CreateDatabase == <<"CREATE DATABASE materialize">>
ResetMaterializedCtx(stmt) == <<"resetting materialized state: ">> \o stmt

\* The mutant: the default database is left alone.
IsRowMutKeepDefault(message) == message.type = "Row" /\ message.name # DefaultDatabase

\* if let SimpleQueryMessage::Row(row) = message
IsRow(message) == message.type = "Row"

InitResetMaterialized ==
    /\ databases \in DistinctSeqs(DatabaseNames, MaxDatabases)
    /\ rm_pc = "show"
    /\ rm_messages = <<>>
    /\ rm_i = 1
    /\ rm_issued = <<>>
    /\ rm_ret = NoReturn
    /\ BuildIdle /\ RkIdle /\ AdIdle /\ ConnIdle /\ CsIdle

\* The mutant: a statement that fails is passed over.
ResetMaterializedFailMutGoOn(stmt) ==
    /\ rm_pc' = "loop"
    /\ rm_i' = IF rm_pc = "show" THEN rm_i ELSE rm_i + 1
    /\ UNCHANGED <<databases, rm_ret, rm_messages>>

\* .err_ctx(..)? on a statement that failed: the reset returns the error.
ResetMaterializedFail(stmt) ==
    /\ rm_pc' = "done"
    /\ rm_ret' = ReturnErr(GeneralError(ResetMaterializedCtx(stmt)))
    /\ UNCHANGED <<databases, rm_i, rm_messages>>

\* self.pgclient.simple_query("SHOW DATABASES").await
ResetMaterializedShow ==
    /\ rm_pc = "show"
    /\ \E ok \in BOOLEAN :
         /\ rm_issued' = Append(rm_issued, [stmt |-> ShowDatabases, ok |-> ok])
         /\ IF ok
            THEN /\ rm_messages' = ShowDatabasesResult(databases)
                 /\ rm_pc' = "loop"
                 /\ UNCHANGED <<databases, rm_i, rm_ret>>
            ELSE ResetMaterializedFail(ShowDatabases)
    /\ UNCHANGED <<buildvars, rkvars, advars, connvars, csvars>>

\* One turn of the for loop on a row: DROP DATABASE name.
ResetMaterializedDrop ==
    /\ rm_pc = "loop"
    /\ rm_i <= Len(rm_messages)
    /\ IsRow(rm_messages[rm_i])
    /\ LET name == rm_messages[rm_i].name IN
       \E ok \in BOOLEAN :
         /\ rm_issued' = Append(rm_issued, [stmt |-> DropDatabase(name), ok |-> ok])
         /\ IF ok
            THEN /\ databases' = Without(databases, name)
                 /\ rm_i' = rm_i + 1
                 /\ UNCHANGED <<rm_pc, rm_messages, rm_ret>>
            ELSE ResetMaterializedFail(DropDatabase(name))
    /\ UNCHANGED <<buildvars, rkvars, advars, connvars, csvars>>

\* One turn of the for loop on a message that is no row.
ResetMaterializedSkip ==
    /\ rm_pc = "loop"
    /\ rm_i <= Len(rm_messages)
    /\ ~IsRow(rm_messages[rm_i])
    /\ rm_i' = rm_i + 1
    /\ UNCHANGED <<databases, rm_pc, rm_messages, rm_issued, rm_ret>>
    /\ UNCHANGED <<buildvars, rkvars, advars, connvars, csvars>>

\* After the loop: CREATE DATABASE materialize, then Ok(()).
ResetMaterializedCreate ==
    /\ rm_pc = "loop"
    /\ rm_i > Len(rm_messages)
    /\ \E ok \in BOOLEAN :
         /\ rm_issued' = Append(rm_issued, [stmt |-> CreateDatabase, ok |-> ok])
         /\ IF ok
            THEN /\ databases' = Append(databases, DefaultDatabase)
                 /\ rm_pc' = "done"
                 /\ rm_ret' = ReturnOk(<<>>)
                 /\ UNCHANGED <<rm_i, rm_messages>>
            ELSE ResetMaterializedFail(CreateDatabase)
    /\ UNCHANGED <<buildvars, rkvars, advars, connvars, csvars>>

NextResetMaterialized ==
    \/ ResetMaterializedShow
    \/ ResetMaterializedDrop
    \/ ResetMaterializedSkip
    \/ ResetMaterializedCreate

SpecResetMaterialized == InitResetMaterialized /\ [][NextResetMaterialized]_allvars

(***************************************************************************)
(* C11: reset_materialized sends SHOW DATABASES, then one DROP DATABASE    *)
(* per database listed, in the order of the listing, then CREATE DATABASE  *)
(* materialize.  Only the last statement sent can have failed: a failure   *)
(* ends the reset with an error whose context names that statement, no     *)
(* statement follows it, and the databases dropped before stay dropped.    *)
(***************************************************************************)
ListedNames ==
    LET rows == SelectSeq(rm_messages, LAMBDA m : m.type = "Row") IN
    [k \in 1..Len(rows) |-> rows[k].name]
StatementsInOrder ==
    <<ShowDatabases>> \o [k \in 1..Len(ListedNames) |-> DropDatabase(ListedNames[k])]
        \o <<CreateDatabase>>
IsPrefix(p, q) == Len(p) <= Len(q) /\ \A k \in 1..Len(p) : p[k] = q[k]
StatementsIssued == [k \in 1..Len(rm_issued) |-> rm_issued[k].stmt]
DroppedSoFar ==
    {rm_issued[k].stmt[2] : k \in {j \in 1..Len(rm_issued) :
        rm_issued[j].ok /\ rm_issued[j].stmt[1] = "DROP DATABASE "}}

C11_ResetMaterializedFailFast ==
    /\ rm_issued # <<>> => rm_issued[1].stmt = ShowDatabases
    /\ (rm_issued # <<>> /\ rm_issued[1].ok) => IsPrefix(StatementsIssued, StatementsInOrder)
    /\ \A k \in 1..(Len(rm_issued) - 1) : rm_issued[k].ok
    /\ (rm_issued # <<>> /\ ~rm_issued[Len(rm_issued)].ok) =>
           /\ rm_pc = "done"
           /\ rm_ret = ReturnErr(GeneralError(
                  ResetMaterializedCtx(rm_issued[Len(rm_issued)].stmt)))
           /\ \A k \in 1..Len(databases) : databases[k] \notin DroppedSoFar
    /\ (rm_pc = "done" /\ rm_ret.kind = "Ok") =>
           /\ StatementsIssued = StatementsInOrder
           /\ rm_issued[Len(rm_issued)].ok

C11_Witness ==
    /\ rm_pc = "done" /\ rm_ret.kind = "Err"
    /\ Len(ListedNames) = 3
    /\ Len(rm_issued) = 3
    /\ rm_issued[2].ok /\ ~rm_issued[3].ok
    /\ rm_ret.err.ctx = ResetMaterializedCtx(DropDatabase(ListedNames[2]))
    /\ Len(databases) = 2

(***************************************************************************)
(* C12, as claimed: with the databases a, b and the default database, a    *)
(* reset in which no statement fails drops exactly a and b, not the        *)
(* default database, then creates the default database.                    *)
(***************************************************************************)
ResetOfABDefault ==
    /\ rm_pc = "done" /\ rm_ret.kind = "Ok"
    /\ {ListedNames[k] : k \in 1..Len(ListedNames)} = {"a", "b", DefaultDatabase}

C12_Original ==
    ResetOfABDefault =>
        /\ DroppedSoFar = {"a", "b"}
        /\ rm_issued[Len(rm_issued)].stmt = CreateDatabase

(***************************************************************************)
(* C12, amended: with the databases a, b and the default database, a       *)
(* reset in which no statement fails drops a, b and the default database,  *)
(* each once and in the order of the listing, then creates the default     *)
(* database, which is the only database left.                              *)
(***************************************************************************)
C12_DropsEveryListedDatabase ==
    ResetOfABDefault =>
        /\ DroppedSoFar = {"a", "b", DefaultDatabase}
        /\ Len(rm_issued) = 5
        /\ \A k \in 1..3 : rm_issued[k + 1].stmt = DropDatabase(ListedNames[k])
        /\ rm_issued[5].stmt = CreateDatabase
        /\ databases = <<DefaultDatabase>>

C12_Witness ==
    /\ ResetOfABDefault
    /\ ListedNames = <<"a", DefaultDatabase, "b">>
    /\ databases = <<DefaultDatabase>>

(***************************************************************************)
(* State::reset_kinesis                                                    *)
(***************************************************************************)
MaxStreams == 3         \* most streams recorded in the registry
MaxResets == 2          \* most calls of reset_kinesis in a session

StreamNames == {"s1", "s2", "s3"}

\* Error::General { ctx, cause, hints }
General(ctx, cause, hints) ==
    [type |-> "General", ctx |-> ctx, cause |-> cause, hints |-> hints]

DeleteStreamInput(stream_name) ==
    [enforce_consumer_deletion |-> TRUE, stream_name |-> stream_name]
DeleteStreamCtx(stream_name) == <<"deleting Kinesis stream: ", stream_name>>

\* The mutant: a stream that was deleted is taken off the registry.
RegistryAfterDeleteMutForget(names, stream_name) == Without(names, stream_name)

\* for stream_name in &self.kinesis_stream_names: the registry is only read.
RegistryAfterDelete(names, stream_name) == names

InitResetKinesis ==
    /\ kinesis_stream_names \in DistinctSeqs(StreamNames, MaxStreams)
    /\ kinesis_streams \in SUBSET {kinesis_stream_names[k] : k \in 1..Len(kinesis_stream_names)}
    /\ rk_pc = "idle"
    /\ rk_i = 1
    /\ rk_requests = <<>>
    /\ rk_ret = NoReturn
    /\ rk_calls = 0
    /\ BuildIdle /\ RmIdle /\ AdIdle /\ ConnIdle /\ CsIdle

\* The mutant: a deletion that fails is passed over.
ResetKinesisFailMutGoOn(stream_name) ==
    /\ rk_i' = rk_i + 1
    /\ UNCHANGED <<rk_pc, rk_ret, kinesis_stream_names>>

\* .map_err(..)? on a deletion that failed: the reset returns the error.
ResetKinesisFail(stream_name) ==
    /\ rk_pc' = "done"
    /\ rk_ret' = ReturnErr(General(DeleteStreamCtx(stream_name), TRUE, <<>>))
    /\ UNCHANGED <<rk_i, kinesis_stream_names>>

\* A call of reset_kinesis, the first of the session or a later one.
ResetKinesisCall ==
    /\ rk_pc \in {"idle", "done"}
    /\ rk_calls < MaxResets
    /\ rk_calls' = rk_calls + 1
    /\ rk_pc' = "loop"
    /\ rk_i' = 1
    /\ rk_ret' = NoReturn
    /\ UNCHANGED <<kinesis_stream_names, kinesis_streams, rk_requests>>
    /\ UNCHANGED <<buildvars, rmvars, advars, connvars, csvars>>

\* One turn of the for loop: delete_stream(..).await; the service deletes
\* the stream or answers with an error (always, for a stream it has not).
ResetKinesisDelete ==
    /\ rk_pc = "loop"
    /\ rk_i <= Len(kinesis_stream_names)
    /\ LET stream_name == kinesis_stream_names[rk_i] IN
       \E ok \in (IF stream_name \in kinesis_streams THEN BOOLEAN ELSE {FALSE}) :
         /\ rk_requests' = Append(rk_requests,
                [call |-> rk_calls, input |-> DeleteStreamInput(stream_name), ok |-> ok])
         /\ IF ok
            THEN /\ kinesis_streams' = kinesis_streams \ {stream_name}
                 /\ kinesis_stream_names' = RegistryAfterDelete(kinesis_stream_names, stream_name)
                 /\ rk_i' = rk_i + 1
                 /\ UNCHANGED <<rk_pc, rk_ret>>
            ELSE /\ ResetKinesisFail(stream_name)
                 /\ UNCHANGED kinesis_streams
    /\ UNCHANGED rk_calls
    /\ UNCHANGED <<buildvars, rmvars, advars, connvars, csvars>>

\* The registry is empty or the loop is over: Ok(()).
ResetKinesisReturn ==
    /\ rk_pc = "loop"
    /\ rk_i > Len(kinesis_stream_names)
    /\ rk_pc' = "done"
    /\ rk_ret' = ReturnOk(<<>>)
    /\ UNCHANGED <<kinesis_stream_names, kinesis_streams, rk_i, rk_requests, rk_calls>>
    /\ UNCHANGED <<buildvars, rmvars, advars, connvars, csvars>>

NextResetKinesis ==
    \/ ResetKinesisCall
    \/ ResetKinesisDelete
    \/ ResetKinesisReturn

SpecResetKinesis == InitResetKinesis /\ [][NextResetKinesis]_allvars

(***************************************************************************)
(* C13: a call of reset_kinesis sends one delete request, with consumer    *)
(* deletion enforced, per stream of the registry and in registry order.    *)
(* Only the last request of a call can have failed: the call then returns  *)
(* an error naming that stream and sends no request for the streams after  *)
(* it, which stay in the registry.  With an empty registry it sends no     *)
(* request and succeeds.                                                   *)
(***************************************************************************)
RequestsOfCall(c) == SelectSeq(rk_requests, LAMBDA r : r.call = c)

C13_ResetKinesisFailFast ==
    LET reqs == RequestsOfCall(rk_calls)
        n == Len(reqs)
    IN  /\ n <= Len(kinesis_stream_names)
        /\ \A k \in 1..n : reqs[k].input = DeleteStreamInput(kinesis_stream_names[k])
        /\ \A k \in 1..(n - 1) : reqs[k].ok
        /\ \A k \in 1..n : reqs[k].ok => kinesis_stream_names[k] \notin kinesis_streams
        /\ (n > 0 /\ ~reqs[n].ok) =>
               /\ rk_pc = "done"
               /\ rk_ret = ReturnErr(General(DeleteStreamCtx(kinesis_stream_names[n]), TRUE, <<>>))
        /\ (rk_pc = "done" /\ rk_ret.kind = "Ok") =>
               /\ n = Len(kinesis_stream_names)
               /\ \A k \in 1..n : reqs[k].ok
        /\ (rk_pc = "done" /\ kinesis_stream_names = <<>>) =>
               /\ rk_ret.kind = "Ok"
               /\ rk_requests = <<>>

C13_Witness ==
    /\ kinesis_stream_names = <<"s1", "s2", "s3">>
    /\ rk_calls = 1 /\ rk_pc = "done"
    /\ Len(rk_requests) = 2
    /\ rk_requests[1].ok /\ ~rk_requests[2].ok
    /\ rk_ret.kind = "Err" /\ rk_ret.err.ctx = DeleteStreamCtx("s2")
    /\ kinesis_streams = {"s2", "s3"}

(***************************************************************************)
(* C19: no step of reset_kinesis changes the stream registry, whether the  *)
(* deletion succeeds or fails; every call starts at the first entry of the *)
(* registry, so a later call sends a delete request again for a stream     *)
(* that an earlier call deleted.                                           *)
(***************************************************************************)
C19_RegistryUnchanged ==
    [][/\ kinesis_stream_names' = kinesis_stream_names
       /\ rk_calls' # rk_calls => rk_i' = 1
       /\ Len(rk_requests') > Len(rk_requests) =>
              /\ rk_requests'[Len(rk_requests')].call = rk_calls
              /\ rk_requests'[Len(rk_requests')].input.stream_name = kinesis_stream_names[rk_i]
              /\ rk_i = Len(RequestsOfCall(rk_calls)) + 1]_allvars

C19_Witness ==
    /\ rk_calls = 2
    /\ Len(rk_requests) = 3
    /\ rk_requests[1].ok /\ rk_requests[2].ok
    /\ rk_requests[1].input.stream_name = "s1" /\ rk_requests[1].call = 1
    /\ rk_requests[3].input.stream_name = "s1" /\ rk_requests[3].call = 2
    /\ kinesis_stream_names = <<"s1", "s2">>

(***************************************************************************)
(* impl<T: SyncAction> Action for T, and the task that drives the SQL      *)
(* connection while actions run.                                           *)
(***************************************************************************)
MaxActions == 2         \* most adapter calls the caller makes
TickMod == 2            \* the connection task's step counter wraps here

SyncActions == {"x", "y"}
Ops == {"undo", "redo"}
Sessions == {"state1", "state2"}
AdapterCalls == [action : SyncActions, op : Ops, state : Sessions]

\* Result<(), String> of a synchronous undo or redo.
SyncResults == {Ok(<<>>), Err("e1"), Err("e2")}

Running(tick) == [kind |-> "Running", entered |-> tick]

\* The mutant: the adapter swallows the error of the synchronous call.
AdapterResultMutOk(r) == Ok(<<>>)

\* tokio::task::block_in_place(|| self.undo(state)): the value of the
\* closure is the value of the asynchronous method.
AdapterResult(r) == r

\* The mutant: the connection task shares the thread the call blocks.
CanDriveMutStall(p) == p # "blocked"

\* block_in_place hands the worker's other tasks to another thread, so the
\* spawned connection task can be polled whatever the caller is doing.
CanDrive(p) == TRUE

InitAdapter ==
    /\ ad_todo \in SeqsUpTo(AdapterCalls, MaxActions)
    /\ ad_pc = "ready"
    /\ ad_call = NoReturn
    /\ ad_sync = NoReturn
    /\ sync_runs = <<>>
    /\ ad_results = <<>>
    /\ pgconn = "running"
    /\ pgconn_tick = 0
    /\ BuildIdle /\ RmIdle /\ RkIdle /\ CsIdle

\* The caller awaits action.undo(state) or action.redo(state): the adapter
\* enters block_in_place and the synchronous method starts.
AdapterCall ==
    /\ ad_pc = "ready"
    /\ ad_todo # <<>>
    /\ ad_call' = Head(ad_todo)
    /\ ad_todo' = Tail(ad_todo)
    /\ ad_sync' = Running(pgconn_tick)
    /\ ad_pc' = "blocked"
    /\ UNCHANGED <<sync_runs, ad_results, connvars>>
    /\ UNCHANGED <<buildvars, rmvars, rkvars, csvars>>

\* The synchronous undo or redo returns, Ok or an error string.
SyncFinish ==
    /\ ad_pc = "blocked"
    /\ \E r \in SyncResults :
         /\ sync_runs' = Append(sync_runs,
                [action |-> ad_call.action, op |-> ad_call.op,
                 state |-> ad_call.state, result |-> r])
         /\ ad_sync' = r
    /\ ad_pc' = "returning"
    /\ UNCHANGED <<ad_todo, ad_call, ad_results, connvars>>
    /\ UNCHANGED <<buildvars, rmvars, rkvars, csvars>>

\* block_in_place returns and the asynchronous method completes.
AdapterReturn ==
    /\ ad_pc = "returning"
    /\ ad_results' = Append(ad_results, [call |-> ad_call, result |-> AdapterResult(ad_sync)])
    /\ ad_sync' = NoReturn
    /\ ad_pc' = "ready"
    /\ UNCHANGED <<ad_todo, ad_call, sync_runs, connvars>>
    /\ UNCHANGED <<buildvars, rmvars, rkvars, csvars>>

\* The runtime polls the spawned connection task once.
PgconnDrive ==
    /\ pgconn = "running"
    /\ CanDrive(ad_pc)
    /\ pgconn_tick' = (pgconn_tick + 1) % TickMod
    /\ UNCHANGED <<pgconn, advars>>
    /\ UNCHANGED <<buildvars, rmvars, rkvars, csvars>>

NextAdapter ==
    \/ AdapterCall
    \/ SyncFinish
    \/ AdapterReturn
    \/ PgconnDrive

SpecAdapter == InitAdapter /\ [][NextAdapter]_allvars

\* The runtime's scheduler does not starve a task that is ready to run; no
\* such assumption is made about the synchronous call, which may block for
\* ever.
SpecAdapterFair == SpecAdapter /\ WF_allvars(PgconnDrive)

(***************************************************************************)
(* C14: the asynchronous undo/redo of the adapter completes only after the *)
(* synchronous undo/redo has finished, with exactly its result; the        *)
(* synchronous method runs exactly once per call, on the session the       *)
(* caller passed; and the caller starts its next call only after the       *)
(* previous one has completed.                                             *)
(***************************************************************************)
AdapterInStep ==
    /\ Len(sync_runs) = Len(ad_results) + (IF ad_pc = "returning" THEN 1 ELSE 0)
    /\ \A k \in 1..Len(ad_results) :
         /\ ad_results[k].result = sync_runs[k].result
         /\ ad_results[k].call.action = sync_runs[k].action
         /\ ad_results[k].call.op = sync_runs[k].op
         /\ ad_results[k].call.state = sync_runs[k].state
    /\ ad_pc = "returning" =>
         /\ sync_runs[Len(sync_runs)].action = ad_call.action
         /\ sync_runs[Len(sync_runs)].state = ad_call.state
         /\ sync_runs[Len(sync_runs)].result = ad_sync

C14_AdapterSequential ==
    [][/\ AdapterInStep'
       /\ Len(ad_results') > Len(ad_results) =>
              /\ Len(sync_runs) = Len(ad_results')
              /\ sync_runs' = sync_runs
       /\ ad_todo' # ad_todo =>
              /\ ad_pc = "ready" /\ ad_pc' = "blocked"
              /\ Len(ad_results) = Len(sync_runs)
              /\ ad_todo' = Tail(ad_todo)]_allvars

C14_Witness ==
    /\ Len(ad_results) = 2
    /\ ad_results[1].result = Err("e1")
    /\ ad_results[2].result = Ok(<<>>)
    /\ ad_results[1].call.state = "state2"
    /\ Len(sync_runs) = 2

Configs ==
    [materialized_catalog_path : BOOLEAN, keystore_path : BOOLEAN,
     keystore_pass : BOOLEAN, root_cert_path : BOOLEAN,
     krb5_keytab_path : BOOLEAN, krb5_service_name : BOOLEAN,
     krb5_principal : BOOLEAN]

\* kafka_config.set(key, value): a later set of the same key wins.
ConfigSet(kc, key, value) == (key :> value) @@ kc

\* // SSL settings
SslSettings(kc, c) ==
    IF c.keystore_path
    THEN LET k1 == ConfigSet(kc, "security.protocol", "ssl")
             k2 == ConfigSet(k1, "ssl.keystore.location", "keystore_path")
             k3 == IF c.keystore_pass
                   THEN ConfigSet(k2, "ssl.keystore.password", "keystore_pass") ELSE k2
         IN  IF c.root_cert_path
             THEN ConfigSet(k3, "ssl.ca.location", "root_cert_path") ELSE k3
    ELSE kc

\* // Kerberos settings (sasl_plaintext only)
KerberosSettings(kc, c) ==
    IF c.krb5_keytab_path
    THEN LET k1 == ConfigSet(kc, "security.protocol", "sasl_plaintext")
             k2 == ConfigSet(k1, "sasl.kerberos.keytab", "krb5_keytab_path")
             k3 == IF c.krb5_service_name
                   THEN ConfigSet(k2, "sasl.kerberos.service.name", "krb5_service_name") ELSE k2
         IN  IF c.krb5_principal
             THEN ConfigSet(k3, "sasl.kerberos.principal", "krb5_principal") ELSE k3
    ELSE kc

KafkaConfig(c) ==
    KerberosSettings(SslSettings(ConfigSet(EmptyMap, "bootstrap.servers", "kafka_url"), c), c)

\* The step that follows a step that succeeded.
NextStep(step, c) ==
    CASE step = "tempdir" -> IF c.materialized_catalog_path THEN "catalog" ELSE "config_url"
      [] step = "catalog" -> "config_url"
      [] step = "config_url" -> "connect"
      [] step = "connect" -> IF c.keystore_path THEN "keystore" ELSE "kafka_admin"
      [] step = "keystore" -> IF c.root_cert_path THEN "root_cert" ELSE "kafka_admin"
      [] step = "root_cert" -> "kafka_admin"
      [] step = "kafka_admin" -> "kafka_producer"
      [] step = "kafka_producer" -> "kinesis"
      [] step = "kinesis" -> "alive"

\* The error of util::postgres::config_url, passed on unchanged by ?.
ConfigUrlErrors == {GeneralError("materialized URL")}

\* The errors with which each step can end create_state.
Failures(step) ==
    CASE step = "tempdir" -> {GeneralError("creating temporary directory")}
      [] step = "catalog" ->
            {General("materialized catalog path is not a regular file", FALSE, <<>>),
             General("opening materialized catalog path", TRUE, <<"is .. accessible to testdrive?">>)}
      [] step = "config_url" -> ConfigUrlErrors
      [] step = "connect" ->
            {General("opening SQL connection", TRUE,
                     <<"connection string: ..", "are you running the materialized server?">>)}
      [] step = "keystore" ->
            {General("opening keystore file", TRUE, <<"is .. accessible to testdrive?">>),
             General("reading keystore file", TRUE, <<"is .. readable from testdrive?">>),
             General("reading keystore file as pkcs12", TRUE, <<"is .. a valid pkcs12 file?">>)}
      [] step = "root_cert" ->
            {General("opening root cert file", TRUE, <<"is .. accessible to testdrive?">>),
             General("reading root cert file", TRUE, <<"is .. readable from testdrive?">>),
             General("reading root cert file as pem", TRUE, <<"is .. a valid pem file?">>)}
      [] step = "kafka_admin" ->
            {General("opening Kafka connection", TRUE, <<"connection string: ..">>)}
      [] step = "kafka_producer" ->
            {General("opening Kafka producer connection", TRUE, <<"connection string: ..">>)}
      [] step = "kinesis" ->
            {General("creating Kinesis client", TRUE, <<"region: ..">>)}

\* Ok((state, pgconn_task))
CreateStateOk == [kind |-> "Ok", state |-> "State", cleanup |-> "pgconn_task"]

\* The mutant: the cleanup future hides the failure of the connection.
CleanupResultMutOk(conn) == ReturnOk(<<>>)

\* tokio::spawn(pgconn).map(|join| join.expect(..).map_err(..)): the value
\* of the cleanup future, once the connection task is over.
CleanupResult(conn) ==
    IF conn = "failed"
    THEN ReturnErr(General("running SQL connection", TRUE, <<>>))
    ELSE ReturnOk(<<>>)

InitCreateState ==
    /\ config \in Configs
    /\ cs_pc = "tempdir"
    /\ cs_steps = <<>>
    /\ kafka_config = EmptyMap
    /\ cs_ret = NoReturn
    /\ state_alive = FALSE
    /\ cleanup = NoReturn
    /\ reported = <<>>
    /\ ConnIdle
    /\ BuildIdle /\ RmIdle /\ RkIdle /\ AdIdle

\* The mutant: a step that fails is passed over.
CreateStateFailMutGoOn(step, e) ==
    /\ cs_pc' = IF step = "kinesis" THEN "done" ELSE NextStep(step, config)
    /\ cs_ret' = IF step = "kinesis" THEN ReturnErr(e) ELSE cs_ret

\* return Err(..), or ? on an Err.
CreateStateFail(step, e) ==
    /\ cs_pc' = "done"
    /\ cs_ret' = ReturnErr(e)

\* A step other than the last, with its two outcomes.
Attempt(step) ==
    /\ cs_pc = step
    /\ \E ok \in BOOLEAN :
         /\ cs_steps' = Append(cs_steps, [step |-> step, ok |-> ok])
         /\ IF ok
            THEN cs_pc' = NextStep(step, config) /\ UNCHANGED cs_ret
            ELSE \E e \in Failures(step) : CreateStateFail(step, e)
    /\ UNCHANGED <<config, state_alive, cleanup, reported, pgconn_tick>>
    /\ UNCHANGED <<buildvars, rmvars, rkvars, advars>>

\* tempfile::tempdir()
CsTempDir == Attempt("tempdir") /\ UNCHANGED <<pgconn, kafka_config>>

\* fs::metadata(&path) of the catalog path, when one is configured.
CsCatalog == Attempt("catalog") /\ UNCHANGED <<pgconn, kafka_config>>

\* util::postgres::config_url(&config.materialized_pgconfig)?
CsConfigUrl == Attempt("config_url") /\ UNCHANGED <<pgconn, kafka_config>>

\* connect(NoTls).await, then tokio::spawn(pgconn) when it succeeded.
CsConnect ==
    /\ Attempt("connect")
    /\ pgconn' = IF cs_steps'[Len(cs_steps')].ok THEN "running" ELSE pgconn
    /\ UNCHANGED kafka_config

\* Open and read the keystore, parse it as pkcs12.
CsKeystore == Attempt("keystore") /\ UNCHANGED <<pgconn, kafka_config>>

\* Open and read the root certificate, parse it as pem.
CsRootCert == Attempt("root_cert") /\ UNCHANGED <<pgconn, kafka_config>>

\* Build kafka_config, then create the admin client from it.
CsKafkaAdmin ==
    /\ Attempt("kafka_admin")
    /\ kafka_config' = KafkaConfig(config)
    /\ UNCHANGED pgconn

\* Create the producer from the same kafka_config.
CsKafkaProducer == Attempt("kafka_producer") /\ UNCHANGED <<pgconn, kafka_config>>

\* kinesis_client(..).await, then State { .. } and Ok((state, pgconn_task)).
CsKinesis ==
    /\ cs_pc = "kinesis"
    /\ \E ok \in BOOLEAN :
         /\ cs_steps' = Append(cs_steps, [step |-> "kinesis", ok |-> ok])
         /\ IF ok
            THEN /\ cs_pc' = NextStep("kinesis", config)
                 /\ cs_ret' = CreateStateOk
                 /\ state_alive' = TRUE
            ELSE /\ \E e \in Failures("kinesis") : CreateStateFail("kinesis", e)
                 /\ UNCHANGED state_alive
    /\ UNCHANGED <<config, kafka_config, cleanup, reported, connvars>>
    /\ UNCHANGED <<buildvars, rmvars, rkvars, advars>>

\* The caller drops the State, and with it the SQL client.
DropState ==
    /\ cs_pc = "alive"
    /\ state_alive' = FALSE
    /\ cs_pc' = "dropped"
    /\ UNCHANGED <<config, cs_steps, kafka_config, cs_ret, cleanup, reported, connvars>>
    /\ UNCHANGED <<buildvars, rmvars, rkvars, advars>>

\* The connection task ends with a protocol error, at any time.
PgconnFail ==
    /\ pgconn = "running"
    /\ pgconn' = "failed"
    /\ UNCHANGED <<pgconn_tick, csvars>>
    /\ UNCHANGED <<buildvars, rmvars, rkvars, advars>>

\* The connection task ends normally once the SQL client is gone.
PgconnFinish ==
    /\ pgconn = "running"
    /\ cs_pc \in {"dropped", "done"}
    /\ pgconn' = "finished"
    /\ UNCHANGED <<pgconn_tick, csvars>>
    /\ UNCHANGED <<buildvars, rmvars, rkvars, advars>>

\* The caller awaits the cleanup future after the drop; it completes when
\* the connection task is over.
AwaitCleanup ==
    /\ cs_pc = "dropped"
    /\ pgconn \in {"finished", "failed"}
    /\ cleanup' = CleanupResult(pgconn)
    /\ reported' = IF cleanup'.kind = "Err" THEN Append(reported, cleanup'.err) ELSE reported
    /\ cs_pc' = "cleaned"
    /\ UNCHANGED <<config, cs_steps, kafka_config, cs_ret, state_alive, connvars>>
    /\ UNCHANGED <<buildvars, rmvars, rkvars, advars>>

NextCreateState ==
    \/ CsTempDir
    \/ CsCatalog
    \/ CsConfigUrl
    \/ CsConnect
    \/ CsKeystore
    \/ CsRootCert
    \/ CsKafkaAdmin
    \/ CsKafkaProducer
    \/ CsKinesis
    \/ DropState
    \/ PgconnFail
    \/ PgconnFinish
    \/ AwaitCleanup

SpecCreateState == InitCreateState /\ [][NextCreateState]_allvars

(***************************************************************************)
(* C16: a failure of the task driving the SQL connection is never part of  *)
(* what create_state returns and is not reported while the State is alive; *)
(* it is reported once, by the cleanup future awaited after the State is   *)
(* dropped, which completes with an error of context "running SQL          *)
(* connection" exactly when the connection task failed, and with Ok        *)
(* otherwise.                                                              *)
(***************************************************************************)
RunningSqlConnection == General("running SQL connection", TRUE, <<>>)

C16_ConnectionFailureAtCleanup ==
    /\ cs_ret.kind = "Err" => cs_ret.err.ctx # "running SQL connection"
    /\ (state_alive \/ cleanup = NoReturn) => reported = <<>>
    /\ cleanup # NoReturn =>
           /\ ~state_alive
           /\ cs_ret = CreateStateOk
           /\ cleanup = ReturnErr(RunningSqlConnection) <=> pgconn = "failed"
           /\ cleanup = ReturnOk(<<>>) <=> pgconn = "finished"
           /\ reported = IF pgconn = "failed" THEN <<RunningSqlConnection>> ELSE <<>>

C16_Witness ==
    /\ cs_pc = "cleaned"
    /\ pgconn = "failed"
    /\ cs_ret = CreateStateOk
    /\ cleanup.kind = "Err" /\ cleanup.err.ctx = "running SQL connection"
    /\ Len(reported) = 1

(***************************************************************************)
(* C17, as claimed: the broker configuration built by create_state carries *)
(* the settings of at most one of TLS and Kerberos, whatever paths are     *)
(* configured, and of neither when no keystore and no keytab is            *)
(* configured.                                                             *)
(***************************************************************************)
SslKeys == {"ssl.keystore.location", "ssl.keystore.password", "ssl.ca.location"}
KerberosKeys ==
    {"sasl.kerberos.keytab", "sasl.kerberos.service.name", "sasl.kerberos.principal"}

C17_ExclusiveAuth ==
    kafka_config # EmptyMap =>
        /\ ~(DOMAIN kafka_config \cap SslKeys # {} /\ DOMAIN kafka_config \cap KerberosKeys # {})
        /\ (~config.keystore_path /\ ~config.krb5_keytab_path) =>
               DOMAIN kafka_config \cap (SslKeys \cup KerberosKeys) = {}

(***************************************************************************)
(* C18: create_state performs its steps in the fixed order temporary       *)
(* directory, catalog path, SQL connection, keystore, root certificate,    *)
(* broker admin client, broker producer, streaming-log client.  The first  *)
(* step that fails ends it with an error of that step's context: no later  *)
(* step is performed and no State exists.  A failure to connect (SQL,      *)
(* admin, producer, streaming-log client) carries a cause and at least one *)
(* hint.                                                                   *)
(***************************************************************************)
RECURSIVE StepsFrom(_, _)
StepsFrom(step, c) ==
    IF step = "alive" THEN <<>> ELSE <<step>> \o StepsFrom(NextStep(step, c), c)
PlannedSteps == StepsFrom("tempdir", config)

StepContexts(step) ==
    CASE step = "tempdir" -> {"creating temporary directory"}
      [] step = "catalog" -> {"materialized catalog path is not a regular file",
                              "opening materialized catalog path"}
      [] step = "config_url" -> {"materialized URL"}
      [] step = "connect" -> {"opening SQL connection"}
      [] step = "keystore" -> {"opening keystore file", "reading keystore file",
                               "reading keystore file as pkcs12"}
      [] step = "root_cert" -> {"opening root cert file", "reading root cert file",
                                "reading root cert file as pem"}
      [] step = "kafka_admin" -> {"opening Kafka connection"}
      [] step = "kafka_producer" -> {"opening Kafka producer connection"}
      [] step = "kinesis" -> {"creating Kinesis client"}
ConnectionSteps == {"connect", "kafka_admin", "kafka_producer", "kinesis"}

StepsPerformed == [k \in 1..Len(cs_steps) |-> cs_steps[k].step]

C18_CreateStateFailFast ==
    /\ IsPrefix(StepsPerformed, PlannedSteps)
    /\ \A k \in 1..(Len(cs_steps) - 1) : cs_steps[k].ok
    /\ cs_ret.kind = "Ok" =>
           /\ StepsPerformed = PlannedSteps
           /\ cs_steps[Len(cs_steps)].ok
    /\ state_alive => cs_ret.kind = "Ok"
    /\ (cs_steps # <<>> /\ ~cs_steps[Len(cs_steps)].ok) =>
           LET last == cs_steps[Len(cs_steps)].step IN
           /\ cs_pc = "done" /\ ~state_alive
           /\ cs_ret.kind = "Err"
           /\ cs_ret.err.ctx \in StepContexts(last)
           /\ last \in ConnectionSteps =>
                  /\ cs_ret.err.cause
                  /\ cs_ret.err.hints # <<>>
    /\ cs_ret.kind = "Err" => ~cs_steps[Len(cs_steps)].ok

C18_Witness ==
    /\ cs_ret.kind = "Err"
    /\ cs_ret.err.ctx = "opening Kafka producer connection"
    /\ StepsPerformed = <<"tempdir", "catalog", "config_url", "connect", "keystore",
                          "root_cert", "kafka_admin", "kafka_producer">>
    /\ ~state_alive

(***************************************************************************)
(* C20: the argument values of a set command are substituted against the   *)
(* environment as it is when the command is reached, and merged only       *)
(* after that.  A value that references a name the environment lacks makes *)
(* the command fail with a missing-variable error, even when the same      *)
(* command defines that name, and then none of its entries is merged.  A   *)
(* value that references a name defined before takes the earlier value,    *)
(* not the one the same command gives.                                     *)
(***************************************************************************)
C20_SetSubstitutedBeforeMerge ==
    [][(pc = "loop" /\ idx <= Len(cmds) /\ IsSet(cmds[idx].command)) =>
          LET args == cmds[idx].command.args
              failing == {k \in DOMAIN args : ~substitute_vars(args[k], vars).ok}
          IN  IF failing # {}
              THEN /\ pc' = "done"
                   /\ \E k \in failing :
                        ret' = ReturnErr(InputError(substitute_vars(args[k], vars).err,
                                                    cmds[idx].pos))
                   /\ vars' = vars
              ELSE /\ pc' = "loop"
                   /\ idx' = idx + 1
                   /\ DOMAIN vars' = DOMAIN vars \cup DOMAIN args
                   /\ \A k \in DOMAIN vars' :
                        vars'[k] = IF k \in DOMAIN args
                                   THEN substitute_vars(args[k], vars).val
                                   ELSE vars[k]]_allvars

C20_Witness ==
    /\ \E i \in 1..Len(cmds) :
         /\ FailedAt(i)
         /\ IsSet(cmds[i].command)
         /\ cmds[i].command.args = (A :> <<"2">>) @@ (B :> Ref(A))
         /\ ret.err = InputError(UnknownVariable(A), cmds[i].pos)
    /\ A \notin DOMAIN vars
    /\ B \notin DOMAIN vars

(***************************************************************************)
(* C21: build fails at the earliest command that cannot compile: the loop  *)
(* never goes past such a command, the error carries that command's        *)
(* position, and no command after it is examined.  When the arguments or   *)
(* input lines of a builtin reference a missing variable, the error is the *)
(* missing-variable error, whatever the name of the builtin and whatever   *)
(* its builder would say.                                                  *)
(***************************************************************************)
FailsAt(i) ==
    LET c == cmds[i].command IN
    \/ IsUnknownBuiltin(c)
    \/ IsSetSqlTimeout(c) /\ Duration \notin DOMAIN c.args
    \/ IsSetSqlTimeout(c) /\ Duration \in DOMAIN c.args /\ c.args[Duration] = <<"soon">>
    \/ References(c) \ NamesBefore(i) # {}
FailingCommands == {i \in 1..Len(cmds) : FailsAt(i)}
Minimum(S) == CHOOSE m \in S : \A x \in S : m <= x

C21_EarliestFailureReported ==
    /\ \A i \in 1..Len(cmds) : Compiled(i) => ~FailsAt(i)
    /\ (pc = "done" /\ InLoop /\ FailingCommands # {}) =>
           \E i \in 1..Minimum(FailingCommands) : FailedAt(i)
    /\ \A i \in 1..Len(cmds) : FailedAt(i) =>
           /\ ret.err.pos = cmds[i].pos
           /\ Len(out) = Cardinality({j \in 1..(i - 1) : ProducesAction(cmds[j])})
           /\ \A k \in 1..Len(out) : out[k].pos < cmds[i].pos
           /\ (cmds[i].command.type = "Builtin"
                 /\ References(cmds[i].command) \ DOMAIN vars # {}) =>
                  \E n \in References(cmds[i].command) \ DOMAIN vars :
                      ret.err.msg = UnknownVariable(n)

C21_Witness ==
    /\ Len(cmds) = 3
    /\ FailedAt(2)
    /\ FailingCommands = {2, 3}
    /\ cmds[2].command = Builtin("bogus-command", (<<"x">> :> Ref(B)), <<>>)
    /\ IsSetSqlTimeout(cmds[3].command)
    /\ ret.err = InputError(UnknownVariable(B), cmds[2].pos)
    /\ Len(out) = 1

(***************************************************************************)
(* C22: build checks the broker URL of the session before it looks at any  *)
(* command.  With the URL localhost, which does not parse, it returns the  *)
(* general error "reading Kafka broker URL", and with the URL file:///tmp, *)
(* which has no host, a usage error, for every command sequence, the empty *)
(* one included; no command is compiled and no variable is defined.        *)
(***************************************************************************)
UnparsedUrl == <<"localhost">>
HostlessUrl == <<"file", "://", "/tmp">>

C22_UrlCheckedFirst ==
    (kafka_url \in {UnparsedUrl, HostlessUrl} /\ pc # "start") =>
        /\ pc = "done"
        /\ ret.kind = "Err"
        /\ kafka_url = UnparsedUrl => ret.err = GeneralError("reading Kafka broker URL")
        /\ kafka_url = HostlessUrl =>
               /\ ret.err.type = "Usage"
               /\ ret.err.details = <<"invalid Kafka URL ">> \o kafka_url \o <<"; need a hostname">>
        /\ idx = 1
        /\ out = <<>>
        /\ vars = EmptyMap

C22_Witness ==
    /\ kafka_url = UnparsedUrl
    /\ cmds = <<>>
    /\ pc = "done"
    /\ ret = ReturnErr(GeneralError("reading Kafka broker URL"))

====
